---- MODULE Spec2Model ----
(***************************************************************************)
(* Model of abp/filters/parser.py: the filter-list line parser             *)
(* (parse_line and its extractors) and the lazy list iterator              *)
(* (parse_filterlist).                                                      *)
(*                                                                         *)
(* Text is a sequence of one-character strings.  Every regular expression  *)
(* of the source is modelled by a matcher that follows the leftmost,       *)
(* greedy/lazy, backtracking semantics of Python's `re` for that pattern.  *)
(***************************************************************************)
EXTENDS Integers, Sequences, FiniteSets, TLC

VARIABLES lines, consumed, gen, results

vars == <<lines, consumed, gen, results>>

----------------------------------------------------------------------------
(* Bounds of the model.                                                     *)

MaxLines == 3
MaxExtraRequests == 1
MaxClassifyFrags == 4
MaxHeaderFrags == 4
MaxCommentFrags == 4
MaxIncludeFrags == 3
MaxOptions == 2
MaxRules == 2

----------------------------------------------------------------------------
(* Characters and character classes.                                        *)

LowerSeq == <<"a", "b", "c", "d", "e", "f", "g", "h", "i", "j", "k", "l", "m",
              "n", "o", "p", "q", "r", "s", "t", "u", "v", "w", "x", "y", "z">>
UpperSeq == <<"A", "B", "C", "D", "E", "F", "G", "H", "I", "J", "K", "L", "M",
              "N", "O", "P", "Q", "R", "S", "T", "U", "V", "W", "X", "Y", "Z">>
DigitSeq == <<"0", "1", "2", "3", "4", "5", "6", "7", "8", "9">>

Range(f) == {f[i] : i \in DOMAIN f}

Digit == Range(DigitSeq)
Letter == Range(LowerSeq) \cup Range(UpperSeq)
Punct == {"!", "%", "[", "]", ":", ".", "#", "@", "$", ",", "~", "=", "|", "-",
          "_", "(", ")", "*", "^", "/", "\"", "{", "}"}
\* \s and str.strip(): whitespace
Space == {" ", "\t", "\n"}
Alphabet == Letter \cup Digit \cup Punct \cup Space
\* \w
Word == Letter \cup Digit \cup {"_"}
\* [\w\-]
WordDash == Word \cup {"-"}
\* . (no DOTALL flag)
Dot == Alphabet \ {"\n"}

\* re.I: the case-folded form of a character
LowerCase(c) ==
    IF \E i \in DOMAIN UpperSeq : UpperSeq[i] = c
    THEN LowerSeq[CHOOSE i \in DOMAIN UpperSeq : UpperSeq[i] = c]
    ELSE c

----------------------------------------------------------------------------
(* String primitives of Python used by the parser.                          *)

Slice(s, i, j) == IF i > j THEN <<>> ELSE SubSeq(s, i, j)

\* text[i:]  (1-based i)
From(s, i) == Slice(s, i, Len(s))

\* position after the longest run of characters of class C that starts at i
SpanEnd(s, i, C) ==
    CHOOSE j \in i..(Len(s) + 1) :
        /\ \A k \in i..(j - 1) : s[k] \in C
        /\ (j = Len(s) + 1 \/ s[j] \notin C)

\* str.startswith / str.endswith
StartsWith(s, p) == Len(s) >= Len(p) /\ SubSeq(s, 1, Len(p)) = p
EndsWith(s, p) == Len(s) >= Len(p) /\ SubSeq(s, Len(s) - Len(p) + 1, Len(s)) = p

\* the character c is at position i of s
At(s, i, c) == i <= Len(s) /\ s[i] = c

\* the word p is at position i of s
WordAt(s, i, p) ==
    i + Len(p) - 1 <= Len(s) /\ \A k \in 1..Len(p) : s[i + k - 1] = p[k]

\* the lower-case word p is at position i of s, in any case (re.I)
FoldedAt(s, i, p) ==
    i + Len(p) - 1 <= Len(s) /\ \A k \in 1..Len(p) : LowerCase(s[i + k - 1]) = p[k]

\* str.strip()
Strip(s) ==
    IF \A k \in 1..Len(s) : s[k] \in Space THEN <<>>
    ELSE LET a == CHOOSE i \in 1..Len(s) :
                     s[i] \notin Space /\ \A k \in 1..(i - 1) : s[k] \in Space
             b == CHOOSE j \in 1..Len(s) :
                     s[j] \notin Space /\ \A k \in (j + 1)..Len(s) : s[k] \in Space
         IN SubSeq(s, a, b)

\* str.replace(' ', '')
RemoveSpaces(s) == SelectSeq(s, LAMBDA c : c # " ")

\* 'c' in text
Contains(s, c) == \E k \in 1..Len(s) : s[k] = c

RECURSIVE SplitFrom(_, _, _)
SplitFrom(s, i, sep) ==
    LET j == SpanEnd(s, i, Alphabet \ {sep})
    IN IF j > Len(s) THEN <<Slice(s, i, Len(s))>>
       ELSE <<Slice(s, i, j - 1)>> \o SplitFrom(s, j + 1, sep)

\* str.split(sep) for a one-character separator
Split(s, sep) == SplitFrom(s, 1, sep)

\* str.split(sep, 1)
SplitOnce(s, sep) ==
    LET j == SpanEnd(s, 1, Alphabet \ {sep})
    IN IF j > Len(s) THEN <<s>> ELSE <<Slice(s, 1, j - 1), From(s, j + 1)>>

RECURSIVE Join(_)
\* ''.join(parts)
Join(parts) == IF parts = <<>> THEN <<>> ELSE Head(parts) \o Join(Tail(parts))

----------------------------------------------------------------------------
(* ParseError and the other ways a call can end.                            *)

\* ParseError.__init__(self, error, text)
ParseError(error, text) == [exc |-> "ParseError", error |-> error, text |-> text]
AssertionError == [exc |-> "AssertionError"]
AttributeError == [exc |-> "AttributeError"]
StopIteration == [exc |-> "StopIteration"]

Return(v) == [ok |-> TRUE, val |-> v]
Raise(e) == [ok |-> FALSE, val |-> e]

MALFORMED_HEADER ==
    <<"M", "a", "l", "f", "o", "r", "m", "e", "d", " ", "h", "e", "a", "d", "e", "r">>
UNRECOGNIZED_INSTRUCTION ==
    <<"U", "n", "r", "e", "c", "o", "g", "n", "i", "z", "e", "d", " ",
      "i", "n", "s", "t", "r", "u", "c", "t", "i", "o", "n">>
DUPLICATE_ID ==
    <<"D", "u", "p", "l", "i", "c", "a", "t", "e", " ", "i", "d", " ", "i", "n", " ",
      "a", "t", "t", "r", "i", "u", "t", "e", " ", "r", "u", "l", "e", "s">>
MATCHES_EVERYTHING ==
    <<"F", "i", "l", "t", "e", "r", " ", "m", "a", "t", "c", "h", "e", "s", " ",
      "e", "v", "e", "r", "y", "t", "h", "i", "n", "g">>

----------------------------------------------------------------------------
(* Line types (_line_type) and their to_string().                           *)

Header(version) == [type |-> "header", version |-> version]
EmptyLine == [type |-> "emptyline"]
Comment(text) == [type |-> "comment", text |-> text]
Metadata(key, value) == [type |-> "metadata", key |-> key, value |-> value]
Include(target) == [type |-> "include", target |-> target]
BlockingFilter(expression, is_exception, options, pattern) ==
    [type |-> "filter", filter_type |-> "blocking", expression |-> expression,
     is_exception |-> is_exception, options |-> options, pattern |-> pattern]
HidingFilter(expression, is_exception, selector, domains) ==
    [type |-> "filter", filter_type |-> "hiding", expression |-> expression,
     is_exception |-> is_exception, selector |-> selector, domains |-> domains]

INCLUDE_WORD == <<"%", "i", "n", "c", "l", "u", "d", "e">>

to_string(line) ==
    CASE line.type = "header" -> <<"[">> \o line.version \o <<"]">>
      [] line.type = "emptyline" -> <<>>
      [] line.type = "comment" -> <<"!", " ">> \o line.text
      [] line.type = "metadata" -> <<"!", " ">> \o line.key \o <<":", " ">> \o line.value
      [] line.type = "include" -> INCLUDE_WORD \o <<" ">> \o line.target \o <<"%">>
      [] line.type = "filter" -> line.expression

----------------------------------------------------------------------------
(* Comments and metadata.                                                   *)

METADATA_KEYS ==
    { <<"H", "o", "m", "e", "p", "a", "g", "e">>,
      <<"T", "i", "t", "l", "e">>,
      <<"E", "x", "p", "i", "r", "e", "s">>,
      <<"C", "h", "e", "c", "k", "s", "u", "m">>,
      <<"R", "e", "d", "i", "r", "e", "c", "t">>,
      <<"V", "e", "r", "s", "i", "o", "n">> }

NoMatch == [matched |-> FALSE]

\* METADATA_REGEXP.match(text):  !\s*(\w+)\s*:\s*(.*)
METADATA_REGEXP(text) ==
    IF ~At(text, 1, "!") THEN NoMatch
    ELSE LET k0 == SpanEnd(text, 2, Space)
             k1 == SpanEnd(text, k0, Word)
             c  == SpanEnd(text, k1, Space)
         IN IF k1 = k0 \/ ~At(text, c, ":") THEN NoMatch
            ELSE LET v0 == SpanEnd(text, c + 1, Space)
                     v1 == SpanEnd(text, v0, Dot)
                 IN [matched |-> TRUE,
                     g1 |-> Slice(text, k0, k1 - 1),
                     g2 |-> Slice(text, v0, v1 - 1)]

\* the body of _parse_comment, given the match
CommentFrom(text, match) ==
    IF match.matched /\ match.g1 \in METADATA_KEYS
    THEN Return(Metadata(match.g1, match.g2))
    ELSE Return(Comment(Strip(From(text, 2))))

_parse_comment(text) == CommentFrom(text, METADATA_REGEXP(text))

----------------------------------------------------------------------------
(* Headers.                                                                 *)

ADBLOCK == <<"a", "d", "b", "l", "o", "c", "k">>
PLUS == <<"p", "l", "u", "s">>

\* HEADER_REGEXP.match(text):  \[(Adblock(?:\s*Plus\s*[\d\.]+?)?)\]  with re.I
\* match() anchors the start only; the optional group is tried first.
HEADER_REGEXP(text) ==
    IF ~(At(text, 1, "[") /\ FoldedAt(text, 2, ADBLOCK)) THEN NoMatch
    ELSE LET a == 2 + Len(ADBLOCK)
             p == SpanEnd(text, a, Space)
             v0 == SpanEnd(text, p + Len(PLUS), Space)
             v1 == SpanEnd(text, v0, Digit \cup {"."})
         IN IF FoldedAt(text, p, PLUS) /\ v1 > v0 /\ At(text, v1, "]")
            THEN [matched |-> TRUE, g1 |-> Slice(text, 2, v1 - 1)]
            ELSE IF At(text, a, "]")
                 THEN [matched |-> TRUE, g1 |-> Slice(text, 2, a - 1)]
                 ELSE NoMatch

\* the body of _parse_header, given the match
HeaderFrom(text, match) ==
    IF ~match.matched THEN Raise(ParseError(MALFORMED_HEADER, text))
    ELSE Return(Header(match.g1))

_parse_header(text) == HeaderFrom(text, HEADER_REGEXP(text))

----------------------------------------------------------------------------
(* Instructions.                                                            *)

Max(S) == CHOOSE x \in S : \A y \in S : y <= x
Min(S) == CHOOSE x \in S : \A y \in S : x <= y

\* where group 1 of INCLUDE_REGEXP can end when it starts at b: before a '%'
\* that the run of '.' characters from b reaches
IncludeEnds(text, b) ==
    {e \in b..(Len(text) - 1) : e + 1 < SpanEnd(text, b, Dot) /\ text[e + 1] = "%"}

\* where group 1 can start: after one or more of the whitespace characters
\* that follow '%include'
IncludeStarts(text) ==
    {b \in (Len(INCLUDE_WORD) + 2)..SpanEnd(text, Len(INCLUDE_WORD) + 1, Space) :
        IncludeEnds(text, b) # {}}

\* \s+ and .+ are greedy: the latest start, and from it the latest end
IncludeGroup(text, b) == [matched |-> TRUE, g1 |-> Slice(text, b, Max(IncludeEnds(text, b)))]

\* INCLUDE_REGEXP.match(text):  %include\s+(.+)%
INCLUDE_REGEXP(text) ==
    IF ~WordAt(text, 1, INCLUDE_WORD) \/ IncludeStarts(text) = {} THEN NoMatch
    ELSE IncludeGroup(text, Max(IncludeStarts(text)))

\* the body of _parse_instruction, given the match
InstructionFrom(text, match) ==
    IF ~match.matched THEN Raise(ParseError(UNRECOGNIZED_INSTRUCTION, text))
    ELSE Return(Include(match.g1))

_parse_instruction(text) == InstructionFrom(text, INCLUDE_REGEXP(text))

----------------------------------------------------------------------------
(* Hiding filters.                                                          *)

\* $ without re.M: the end of the text, or just before a final newline
EndAnchor(text, p) == p = Len(text) + 1 \/ (p = Len(text) /\ text[p] = "\n")

\* [^\(\)"]
RuleValue == Alphabet \ {"(", ")", "\""}
\* [^\/\*\|\@"!]
DomainChar == Alphabet \ {"/", "*", "|", "@", "\"", "!"}
\* [^{}]
SelectorChar == Alphabet \ {"{", "}"}

\* One attribute rule at position q:  \(([\w\-]+)(?:([$^*]?=)([^\(\)"]*))?\)
\* RuleAt reads '(' and the name, RuleOperator the optional operator, and
\* RuleClose the value and ')'.  has_op is FALSE when group 2 is None.
RuleBare(s, q, n1) ==
    IF At(s, n1, ")")
    THEN [matched |-> TRUE, end |-> n1 + 1, has_op |-> FALSE,
          g1 |-> Slice(s, q + 1, n1 - 1)]
    ELSE NoMatch

RuleClose(s, q, n1, o, v1) ==
    IF At(s, v1, ")")
    THEN [matched |-> TRUE, end |-> v1 + 1, has_op |-> TRUE,
          g1 |-> Slice(s, q + 1, n1 - 1), g2 |-> Slice(s, n1, o),
          g3 |-> Slice(s, o + 1, v1 - 1)]
    ELSE RuleBare(s, q, n1)

RuleOperator(s, q, n1, o) ==
    IF At(s, o, "=") THEN RuleClose(s, q, n1, o, SpanEnd(s, o + 1, RuleValue))
    ELSE RuleBare(s, q, n1)

RuleName(s, q, n1) ==
    IF n1 = q + 1 THEN NoMatch
    ELSE RuleOperator(s, q, n1,
                      IF n1 <= Len(s) /\ s[n1] \in {"$", "^", "*"} THEN n1 + 1 ELSE n1)

RuleAt(s, q) ==
    IF ~At(s, q, "(") THEN NoMatch ELSE RuleName(s, q, SpanEnd(s, q + 1, WordDash))

RECURSIVE RulesEnd(_, _)
RulesEndAfter(s, q, m) == IF m.matched THEN RulesEnd(s, m.end) ELSE q

\* (?:rule)* from position q, greedy: the position after the last rule
RulesEnd(s, q) == RulesEndAfter(s, q, RuleAt(s, q))

\* What follows '#' and the optional '@', from position p up to the end:
\*   (?:([\w\-]+|\*)((?:rule)*)|#([^{}]+))$
\* the second alternative: '#' and a selector that reaches the end
CssBody(text, p) ==
    IF At(text, p, "#") /\ p < Len(text)
          /\ SpanEnd(text, p + 1, SelectorChar) = Len(text) + 1
    THEN [matched |-> TRUE, css |-> TRUE, g5 |-> From(text, p + 1)]
    ELSE NoMatch

\* the first alternative, with the tag read up to t1 and the rules up to r
LegacyBody(text, p, t1, r) ==
    IF EndAnchor(text, r)
    THEN [matched |-> TRUE, css |-> FALSE,
          g3 |-> Slice(text, p, t1 - 1), g4 |-> Slice(text, t1, r - 1)]
    ELSE CssBody(text, p)

TagBody(text, p, t1) ==
    IF t1 > p THEN LegacyBody(text, p, t1, RulesEnd(text, t1)) ELSE CssBody(text, p)

HFilterBody(text, p) ==
    TagBody(text, p,
            IF p <= Len(text) /\ text[p] \in WordDash THEN SpanEnd(text, p, WordDash)
            ELSE IF At(text, p, "*") THEN p + 1 ELSE p)

\* (\@)? is greedy: '@' is taken when the body matches after it
ExceptionBody(text, h, body) ==
    IF body.matched THEN [g2 |-> TRUE, body |-> body]
    ELSE [g2 |-> FALSE, body |-> HFilterBody(text, h + 1)]

\* the match that starts its '#' at position h
HashAt(text, h) ==
    IF At(text, h + 1, "@") THEN ExceptionBody(text, h, HFilterBody(text, h + 2))
    ELSE [g2 |-> FALSE, body |-> HFilterBody(text, h + 1)]

\* the '#' positions that group 1 can stop at with the rest matching
Hashes(text) ==
    {h \in 1..Len(text) :
        /\ text[h] = "#"
        /\ h <= SpanEnd(text, 1, DomainChar)
        /\ HashAt(text, h).body.matched}

HFilterGroups(text, h, t) ==
    [matched |-> TRUE, g1 |-> Slice(text, 1, h - 1), g2 |-> t.g2, body |-> t.body]

\* group 1 is lazy: the first such '#' is taken
FirstHash(text, H) ==
    IF H = {} THEN NoMatch ELSE HFilterGroups(text, Min(H), HashAt(text, Min(H)))

\* HFILTER_REGEXP.match(text):
\*   ^([^\/\*\|\@"!]*?)#(\@)?(?:([\w\-]+|\*)((?:rule)*)|#([^{}]+))$
HFILTER_REGEXP(text) == FirstHash(text, Hashes(text))

RECURSIVE FindIter(_, _)
FindIterAfter(s, q, m) ==
    IF m.matched THEN <<m>> \o FindIter(s, m.end) ELSE FindIter(s, q + 1)

\* OLD_ATTRS_REGEXP.finditer(s) from position q: the matches, left to right
FindIter(s, q) == IF q > Len(s) THEN <<>> ELSE FindIterAfter(s, q, RuleAt(s, q))

None == [some |-> FALSE]
Some(v) == [some |-> TRUE, v |-> v]

\* '[{}{}"{}"]'.format(*match.groups())
Constraint(m) == <<"[">> \o m.g1 \o m.g2 \o <<"\"">> \o m.g3 \o <<"\"", "]">>

RECURSIVE AttrLoop(_, _, _, _)
\* the for loop over the attribute rules: the state it ends in, or the raise
AttrLoop(text, matches, constraints_list, class_or_id) ==
    IF matches = <<>>
    THEN Return([constraints_list |-> constraints_list, class_or_id |-> class_or_id])
    ELSE IF Head(matches).has_op
         THEN AttrLoop(text, Tail(matches),
                       Append(constraints_list, Constraint(Head(matches))), class_or_id)
         ELSE IF ~class_or_id.some
              THEN AttrLoop(text, Tail(matches), constraints_list, Some(Head(matches).g1))
              ELSE Raise(ParseError(text, DUPLICATE_ID))

\* Selector, were the constraints left out of the second alternative and of
\* the test for an empty selector
Selector_TagOnly(text, tag, class_or_id, constraints) ==
    IF class_or_id.some /\ class_or_id.v # <<>>
    THEN Return(tag \o <<".">> \o class_or_id.v \o constraints \o <<",">>
                \o tag \o <<"#">> \o class_or_id.v)
    ELSE IF tag # <<>>
         THEN Return(tag \o constraints)
         ELSE Raise(ParseError(text, MATCHES_EVERYTHING))

\* the end of _tag_and_rules_to_selector: the selector, or the raise
Selector(text, tag, class_or_id, constraints) ==
    IF class_or_id.some /\ class_or_id.v # <<>>
    THEN Return(tag \o <<".">> \o class_or_id.v \o constraints \o <<",">>
                \o tag \o <<"#">> \o class_or_id.v \o constraints)
    ELSE IF tag # <<>> \/ constraints # <<>>
         THEN Return(tag \o constraints)
         ELSE Raise(ParseError(text, MATCHES_EVERYTHING))

AfterAttrLoop(text, tag, loop) ==
    IF ~loop.ok THEN loop
    ELSE Selector(text, tag, loop.val.class_or_id, Join(loop.val.constraints_list))

_tag_and_rules_to_selector(text, tag, attr_rules) ==
    AfterAttrLoop(text, IF tag = <<"*">> THEN <<>> ELSE tag,
                  AttrLoop(text, FindIter(attr_rules, 1), <<>>, None))

\* the HidingFilter of _parse_hiding_filter, once the selector is known
HidingFrom(text, match, selector) ==
    IF ~selector.ok THEN selector
    ELSE Return(HidingFilter(text, match.g2, selector.val,
                             SelectSeq(Split(match.g1, ","), LAMBDA d : d # <<>>)))

_parse_hiding_filter(text, match) ==
    HidingFrom(text, match,
               IF match.body.css /\ match.body.g5 # <<>>
               THEN Return(match.body.g5)
               ELSE _tag_and_rules_to_selector(text, match.body.g3, match.body.g4))

----------------------------------------------------------------------------
(* Blocking filters.                                                        *)

\* option values: True/False, a string, or the list str.split gives
Bool(b) == [t |-> "bool", b |-> b]
Str(s) == [t |-> "str", s |-> s]
List(l) == [t |-> "list", l |-> l]

\* [^,\s]
OptionValue == Alphabet \ ({","} \cup Space)

\* ~?[\w\-]+(?:=[^,\s]+)?(?:,~?[\w\-]+(?:=[^,\s]+)?)*$  from position p:
\* the position after the list when it reaches the end anchor, 0 otherwise.
\* OptionListEnd reads '~', OptionName the name, OptionValueEnd the value,
\* OptionNext the ',' or the end.
RECURSIVE OptionListEnd(_, _)
OptionNext(text, e) ==
    IF EndAnchor(text, e) THEN e
    ELSE IF At(text, e, ",") THEN OptionListEnd(text, e + 1)
    ELSE 0

OptionValueEnd(text, n1, v1) == OptionNext(text, IF v1 > n1 + 1 THEN v1 ELSE n1)

OptionNameEnd(text, q, n1) ==
    IF n1 = q THEN 0
    ELSE IF At(text, n1, "=")
         THEN OptionValueEnd(text, n1, SpanEnd(text, n1 + 1, OptionValue))
         ELSE OptionNext(text, n1)

OptionName(text, q) ==
    IF q > Len(text) THEN 0 ELSE OptionNameEnd(text, q, SpanEnd(text, q, WordDash))

OptionListEnd(text, p) == OptionName(text, IF At(text, p, "~") THEN p + 1 ELSE p)

\* the '$' positions from which the pattern matches
Dollars(text) ==
    {d \in 1..Len(text) : text[d] = "$" /\ OptionListEnd(text, d + 1) # 0}

OptionGroups(text, d) ==
    [matched |-> TRUE, start |-> d,
     g1 |-> Slice(text, d + 1, OptionListEnd(text, d + 1) - 1)]

\* search() takes the leftmost of them
FirstDollar(text, D) == IF D = {} THEN NoMatch ELSE OptionGroups(text, Min(D))

\* BFILTER_OPTIONS_REGEXP.search(text):  \$(option(?:,option)*)$
BFILTER_OPTIONS_REGEXP(text) == FirstDollar(text, Dollars(text))

DOMAIN_NAMES == { <<"d", "o", "m", "a", "i", "n">>, <<"s", "i", "t", "e", "k", "e", "y">> }

\* SetItem, were a name already present to keep its first value
SetItem_KeepFirst(d, name, value) ==
    [n \in DOMAIN d \cup {name} |-> IF n \in DOMAIN d THEN d[n] ELSE value]

\* dict item assignment: parsed_options[name] = value
SetItem(d, name, value) ==
    [n \in DOMAIN d \cup {name} |-> IF n = name THEN value ELSE d[n]]

\* name and value of one option, before the domain/sitekey split
NameValue(option) ==
    IF Contains(option, "=")
    THEN [name |-> SplitOnce(option, "=")[1], value |-> Str(SplitOnce(option, "=")[2])]
    ELSE IF StartsWith(option, <<"~">>)
         THEN [name |-> From(option, 2), value |-> Bool(FALSE)]
         ELSE [name |-> option, value |-> Bool(TRUE)]

RECURSIVE OptionLoop(_, _)
\* the rest of one iteration: the split for domain/sitekey, the assignment
OptionStep(tokens, parsed_options, nv) ==
    IF nv.name \in DOMAIN_NAMES
    THEN IF nv.value.t = "str"
         THEN OptionLoop(Tail(tokens),
                         SetItem(parsed_options, nv.name, List(Split(nv.value.s, "|"))))
         ELSE Raise(AttributeError)   \* bool has no split()
    ELSE OptionLoop(Tail(tokens), SetItem(parsed_options, nv.name, nv.value))

\* the for loop over options.split(','): the dict, or the raise
OptionLoop(tokens, parsed_options) ==
    IF tokens = <<>> THEN Return(parsed_options)
    ELSE OptionStep(tokens, parsed_options, NameValue(Head(tokens)))

_parse_filter_options(text, options) == OptionLoop(Split(options, ","), <<>>)

\* the BlockingFilter of _parse_blocking_filter, once the options are parsed
BlockingWith(expression, is_exception, pattern, options) ==
    IF ~options.ok THEN options
    ELSE Return(BlockingFilter(expression, is_exception, options.val, pattern))

BlockingFrom(expression, is_exception, text, opt_match) ==
    IF opt_match.matched
    THEN BlockingWith(expression, is_exception, Slice(text, 1, opt_match.start - 1),
                      _parse_filter_options(text, opt_match.g1))
    ELSE Return(BlockingFilter(expression, is_exception, <<>>, text))

\* _parse_blocking_filter after the '@@' test, text being what is left
BlockingRest(expression, is_exception, text) ==
    BlockingFrom(expression, is_exception, text,
                 IF Contains(text, "$") THEN BFILTER_OPTIONS_REGEXP(text) ELSE NoMatch)

_parse_blocking_filter(text) ==
    BlockingRest(text, StartsWith(text, <<"@", "@">>),
                 IF StartsWith(text, <<"@", "@">>) THEN From(text, 3) ELSE text)

FilterFrom(text, match) ==
    IF match.matched THEN _parse_hiding_filter(text, match)
    ELSE _parse_blocking_filter(text)

_parse_filter(text) ==
    FilterFrom(text, IF Contains(text, "#") THEN HFILTER_REGEXP(text) ELSE NoMatch)

----------------------------------------------------------------------------
(* parse_line.                                                              *)

\* Route, were the instruction test moved first with `or` for `and`
Route_InstructionFirst(content) ==
    IF content = <<>> THEN "empty"
    ELSE IF StartsWith(content, <<"%">>) \/ EndsWith(content, <<"%">>) THEN "instruction"
    ELSE IF StartsWith(content, <<"!">>) THEN "comment"
    ELSE IF StartsWith(content, <<"[">>) /\ EndsWith(content, <<"]">>) THEN "header"
    ELSE "filter"

\* the branch of parse_line that a trimmed line takes
Route(content) ==
    IF content = <<>> THEN "empty"
    ELSE IF StartsWith(content, <<"!">>) THEN "comment"
    ELSE IF StartsWith(content, <<"%">>) /\ EndsWith(content, <<"%">>) THEN "instruction"
    ELSE IF StartsWith(content, <<"[">>) /\ EndsWith(content, <<"]">>) THEN "header"
    ELSE "filter"

\* the extractor call of each branch
Dispatch(route, content) ==
    CASE route = "empty" -> Return(EmptyLine)
      [] route = "comment" -> _parse_comment(content)
      [] route = "instruction" -> _parse_instruction(content)
      [] route = "header" -> _parse_header(content)
      [] route = "filter" -> _parse_filter(content)

Extract(content) == Dispatch(Route(content), content)

\* assert line.to_string().replace(' ', '') == content.replace(' ', '')
RoundTrips(line, content) == RemoveSpaces(to_string(line)) = RemoveSpaces(content)

\* the assert and the return, the extractor having ended with `line`
Checked(line, content) ==
    IF ~line.ok THEN line
    ELSE IF ~RoundTrips(line.val, content) THEN Raise(AssertionError)
    ELSE line

\* parse_line without its assert statement
parse_line_Unchecked(line_text) == Extract(Strip(line_text))

parse_line(line_text) == Checked(Extract(Strip(line_text)), Strip(line_text))

----------------------------------------------------------------------------
(* parse_filterlist: a generator over the input lines.                      *)
(*   lines     the caller's line sequence                                   *)
(*   consumed  how many lines the for loop has taken from it                *)
(*   gen       the generator: created, suspended at the yield, or closed    *)
(*   results   what each next() call so far ended with                      *)

TypeOK ==
    /\ consumed \in 0..Len(lines)
    /\ gen \in {"created", "suspended", "closed"}
    /\ \A k \in 1..Len(results) : results[k].ok \in BOOLEAN

CanRequest == Len(results) < Len(lines) + MaxExtraRequests

\* Yield, were the loop to take the following line too before yielding
Yield_Lookahead(o) ==
    /\ o.ok
    /\ consumed' = IF consumed + 2 <= Len(lines) THEN consumed + 2 ELSE consumed + 1
    /\ gen' = "suspended"
    /\ results' = Append(results, o)
    /\ UNCHANGED lines

\* parse_line returned o: the record is yielded and the generator suspends
Yield(o) ==
    /\ o.ok
    /\ consumed' = consumed + 1
    /\ gen' = "suspended"
    /\ results' = Append(results, o)
    /\ UNCHANGED lines

\* Propagate, were the generator to stay suspended after the exception
Propagate_Resuming(o) ==
    /\ ~o.ok
    /\ consumed' = consumed + 1
    /\ gen' = "suspended"
    /\ results' = Append(results, o)
    /\ UNCHANGED lines

\* parse_line raised o: the exception leaves the generator, which is
\* thereby finished
Propagate(o) ==
    /\ ~o.ok
    /\ consumed' = consumed + 1
    /\ gen' = "closed"
    /\ results' = Append(results, o)
    /\ UNCHANGED lines

\* next(): the loop takes a line, parse_line returns, the record is yielded
NextYield ==
    /\ CanRequest
    /\ gen # "closed"
    /\ consumed < Len(lines)
    /\ Yield(parse_line(lines[consumed + 1]))

\* next(): the loop takes a line and parse_line raises
NextRaise ==
    /\ CanRequest
    /\ gen # "closed"
    /\ consumed < Len(lines)
    /\ Propagate(parse_line(lines[consumed + 1]))

\* next(): the input is exhausted, or the generator is already finished
NextStop ==
    /\ CanRequest
    /\ gen = "closed" \/ consumed = Len(lines)
    /\ gen' = "closed"
    /\ results' = Append(results, Raise(StopIteration))
    /\ UNCHANGED <<lines, consumed>>

Next == NextYield \/ NextRaise \/ NextStop

\* the state after parse_filterlist(input): nothing has run yet
Created(input) ==
    /\ lines = input
    /\ consumed = 0
    /\ gen = "created"
    /\ results = <<>>

----------------------------------------------------------------------------
(* Inputs.                                                                  *)

RECURSIVE Concats(_, _)
\* the concatenations of at most n fragments of F
Concats(F, n) ==
    IF n = 0 THEN {<<>>}
    ELSE LET P == Concats(F, n - 1) IN P \cup {p \o f : p \in P, f \in F}

RECURSIVE Lists(_, _)
\* the sequences of at most n elements of S
Lists(S, n) ==
    IF n = 0 THEN {<<>>}
    ELSE LET P == Lists(S, n - 1) IN P \cup {Append(p, x) : p \in P, x \in S}

RECURSIVE JoinWith(_, _)
\* sep.join(parts)
JoinWith(parts, sep) ==
    IF parts = <<>> THEN <<>>
    ELSE IF Len(parts) = 1 THEN parts[1]
    ELSE parts[1] \o sep \o JoinWith(Tail(parts), sep)

\* lists of whole lines, for the iterator
IterLines ==
    { <<"!", " ", "g">>, <<"%", "b", "%">>, <<"!", "n">>, <<"[", "x", "]">>,
      <<" ">>, <<"a">> }
IterInputs == Lists(IterLines, MaxLines)

\* lines made of the characters the classifier looks at
ClassifyFrags == { <<" ">>, <<"\t">>, <<"!">>, <<"%">>, <<"[">>, <<"]">>, <<"a">> }
ClassifyLines == Concats(ClassifyFrags, MaxClassifyFrags)

\* bracketed lines
HeaderFrags ==
    { <<"A", "d", "b", "l", "o", "c", "k">>, <<"p", "l", "u", "s">>, <<" ">>,
      <<"1">>, <<".">>, <<"]">>, <<"x">> }
HeaderLines == { <<"[">> \o b \o <<"]">> : b \in Concats(HeaderFrags, MaxHeaderFrags) }

\* lines that start with '!'
CommentFrags ==
    { <<"T", "i", "t", "l", "e">>, <<"N", "b">>, <<":">>, <<" ">>, <<"\t">>, <<"x">> }
CommentLines == { <<"!">> \o b : b \in Concats(CommentFrags, MaxCommentFrags) }

\* lines between two '%'
IncludeFrags ==
    { <<"i", "n", "c", "l", "u", "d", "e">>, <<" ">>, <<"\t">>, <<"x">>, <<"%">> }
IncludeLines == { <<"%">> \o b \o <<"%">> : b \in Concats(IncludeFrags, MaxIncludeFrags) }

\* blocking filters: a prefix, then '$' and comma-separated option tokens
DOMAIN_WORD == <<"d", "o", "m", "a", "i", "n">>
SITEKEY_WORD == <<"s", "i", "t", "e", "k", "e", "y">>
OptionTokens ==
    { <<"x">>, <<"~", "x">>, <<"x", "=", "a">>, <<"x", "=", "b">>, <<"m", "-", "c">>,
      <<"~", "x", "=", "a">>, <<"x", "=">>, <<"x", "=", "a", "$", "y">>, <<" ", "x">>,
      <<"~">>, <<>>,
      DOMAIN_WORD, <<"~">> \o DOMAIN_WORD, DOMAIN_WORD \o <<"=", "a", "|", "b">>,
      DOMAIN_WORD \o <<"=", "a">>, SITEKEY_WORD, SITEKEY_WORD \o <<"=", "k", "|">>,
      <<"~">> \o SITEKEY_WORD }
OptionPrefixes == { <<>>, <<"a">>, <<"@", "@", "a">>, <<"@", "@">>, <<"a", "$", "b">> }
OptionLine(pre, toks) ==
    IF toks = <<>> THEN pre ELSE pre \o <<"$">> \o JoinWith(toks, <<",">>)
OptionLines ==
    { OptionLine(pre, toks) : pre \in OptionPrefixes, toks \in Lists(OptionTokens, MaxOptions) }

\* hiding filters: domains, '#', optional '@', then tag and attribute rules
\* or '#' and a selector
HidingDomains == { <<>>, <<"a", ",", ",", "b">> }
HidingTags == { <<"*">>, <<"d">>, <<"d", "-", "v">> }
HidingRules ==
    { <<"(", "i", ")">>, <<"(", "j", ")">>, <<"(", "n", "=", "v", ")">>,
      <<"(", "n", "^", "=", "v", ")">>, <<"(", "n", "$", "=", ")">>,
      <<"(", "n", "*", "=", "v", " ", "w", ")">> }
HidingLine(dom, exc, tag, rules) ==
    dom \o <<"#">> \o (IF exc THEN <<"@">> ELSE <<>>) \o tag \o Join(rules)
LegacyLines ==
    { HidingLine(dom, exc, tag, rules) :
        dom \in HidingDomains, exc \in BOOLEAN, tag \in HidingTags,
        rules \in Lists(HidingRules, MaxRules) }
CssLines ==
    { dom \o <<"#">> \o (IF exc THEN <<"@">> ELSE <<>>) \o <<"#">> \o sel :
        dom \in HidingDomains, exc \in BOOLEAN,
        sel \in { <<"d", "#", "i">>, <<".", "c", " ", "d">>, <<"d", "{", "}">>, <<>> } }
\* near misses of the hiding grammar, which fall through to blocking filters
BrokenHidingLines ==
    { <<"a", "#", "d", "(", "i">>, <<"a", "#", "d", "(", ")">>,
      <<"a", "/", "#", "d">>, <<"#", "d", "(", "n", "=", "\"", ")">>, <<"#">> }
HidingLines == LegacyLines \cup CssLines \cup BrokenHidingLines

AllLines ==
    ClassifyLines \cup HeaderLines \cup CommentLines \cup IncludeLines
        \cup OptionLines \cup HidingLines

----------------------------------------------------------------------------
(* Specifications: the same iterator, started on different inputs.          *)

Init == \E input \in IterInputs : Created(input)
Spec == Init /\ [][Next]_vars

InitLine == \E l \in AllLines : Created(<<l>>)
SpecLine == InitLine /\ [][Next]_vars

InitClassify == \E l \in ClassifyLines : Created(<<l>>)
SpecClassify == InitClassify /\ [][Next]_vars

InitHeader == \E l \in HeaderLines : Created(<<l>>)
SpecHeader == InitHeader /\ [][Next]_vars

InitOptions == \E l \in OptionLines : Created(<<l>>)
SpecOptions == InitOptions /\ [][Next]_vars

InitHiding == \E l \in HidingLines : Created(<<l>>)
SpecHiding == InitHiding /\ [][Next]_vars

----------------------------------------------------------------------------
(* Vocabulary of the properties.                                            *)

\* the requests that took a line from the input: request k took line k
Parsed == 1..consumed

IsRecord(o, types) == o.ok /\ o.val.type \in types
IsParseError(o) == ~o.ok /\ o.val.exc = "ParseError"
IsException(o, name) == ~o.ok /\ o.val.exc = name
IsBlocking(o) == IsRecord(o, {"filter"}) /\ o.val.filter_type = "blocking"
IsHiding(o) == IsRecord(o, {"filter"}) /\ o.val.filter_type = "hiding"

\* requests 1..k-1 all produced a record
LiveBefore(k) == \A j \in 1..(k - 1) : results[j].ok

RemoveWhitespace(s) == SelectSeq(s, LAMBDA c : c \notin Space)

----------------------------------------------------------------------------
(* C1 and C2: the iterator.                                                 *)

\* C1 (as stated): when line i fails to parse, the request for record i
\* raises the error and the next request still produces the record of
\* line i+1 when that line is parseable.
C1_ResumesAfterFailure ==
    \A i \in 1..Len(results) :
        (i <= Len(lines) /\ LiveBefore(i) /\ ~parse_line(lines[i]).ok) =>
            /\ results[i] = parse_line(lines[i])
            /\ (i + 1 <= Len(results) /\ i + 1 <= Len(lines)
                    /\ parse_line(lines[i + 1]).ok)
                 => results[i + 1] = parse_line(lines[i + 1])

\* C1 (amended): when line i fails to parse, the request for record i raises
\* the error and thereby ends the iteration: every later request on the same
\* iterator raises StopIteration and takes no further line, so the record of
\* line i+1 is never produced.
C1_FailureEndsIteration ==
    \A i \in 1..Len(results) :
        (i <= Len(lines) /\ LiveBefore(i) /\ ~parse_line(lines[i]).ok) =>
            /\ results[i] = parse_line(lines[i])
            /\ consumed = i
            /\ \A j \in (i + 1)..Len(results) : results[j] = Raise(StopIteration)

\* a failure at line 2 of 3 followed by one more request, with line 3 parseable
C1_Witness ==
    /\ Len(lines) = 3 /\ Len(results) = 3
    /\ results[1].ok /\ IsParseError(results[2])
    /\ parse_line(lines[3]).ok
    /\ results[3] = Raise(StopIteration)

\* C2 (as stated): after k requests exactly the first k lines have been
\* consumed, and the k-th request yields the outcome of parse_line on the
\* k-th line; nothing is parsed at creation.
C2_EveryRequestParsesItsLine ==
    /\ Len(results) <= Len(lines) => consumed = Len(results)
    /\ \A k \in 1..Len(results) :
           k <= Len(lines) => results[k] = parse_line(lines[k])

FirstFailure ==
    IF \A k \in 1..Len(results) : results[k].ok THEN Len(results)
    ELSE Min({k \in 1..Len(results) : ~results[k].ok})

\* C2 (amended): up to and including the first request that raises, after k
\* requests exactly the first k lines have been consumed (no lookahead) and
\* the k-th request yields the outcome of parse_line on the k-th line, so the
\* error of an invalid line k is raised at request k and not before; requests
\* after the first raise consume nothing.
C2_LazyUntilFirstFailure ==
    /\ consumed = IF FirstFailure <= Len(lines) THEN FirstFailure ELSE Len(lines)
    /\ \A k \in 1..Len(results) :
           (k <= Len(lines) /\ LiveBefore(k)) => results[k] = parse_line(lines[k])

\* two records requested from three lines, the third line invalid and untouched
C2_Witness ==
    /\ Len(lines) = 3 /\ Len(results) = 2 /\ consumed = 2
    /\ results[1].ok /\ results[2].ok
    /\ ~parse_line(lines[3]).ok

----------------------------------------------------------------------------
(* C3 and C4: the round trip.                                               *)

\* C3: for every line on which parse_line returns a record, to_string() of
\* the record with all whitespace removed equals the line with all
\* whitespace removed.
C3_RoundTrip ==
    \A k \in Parsed :
        results[k].ok =>
            RemoveWhitespace(to_string(results[k].val)) = RemoveWhitespace(lines[k])

\* a record whose rendering differs from the line it came from
C3_Witness ==
    \E k \in Parsed :
        /\ IsRecord(results[k], {"metadata"})
        /\ to_string(results[k].val) # Strip(lines[k])
        /\ Contains(Strip(lines[k]), " ")

\* C4: parse_line never ends by the round-trip assertion, and every line
\* whose trimmed content starts with '!' yields a Comment or Metadata.
C4_AssertionNeverFails ==
    \A k \in Parsed :
        /\ ~IsException(results[k], "AssertionError")
        /\ StartsWith(Strip(lines[k]), <<"!">>)
              => IsRecord(results[k], {"comment", "metadata"})

----------------------------------------------------------------------------
(* C5: what a ParseError carries.                                           *)

Reasons ==
    {MALFORMED_HEADER, UNRECOGNIZED_INSTRUCTION, DUPLICATE_ID, MATCHES_EVERYTHING}

\* C5: every ParseError carries the offending line text in `text` and the
\* human-readable reason in `error`.
C5_ErrorCarriesTextAndReason ==
    \A k \in Parsed :
        IsParseError(results[k]) =>
            /\ results[k].val.text = Strip(lines[k])
            /\ results[k].val.error \in Reasons

----------------------------------------------------------------------------
(* C6: option values.                                                       *)

\* C6: no option token accepted by the options grammar is rejected, a
\* `domain` or `sitekey` option holds a sequence of strings, and every other
\* option holds a boolean or a single string.
C6_OptionValueShapes ==
    \A k \in Parsed :
        /\ ~IsException(results[k], "AttributeError")
        /\ IsBlocking(results[k]) =>
              \A n \in DOMAIN results[k].val.options :
                  IF n \in DOMAIN_NAMES
                  THEN results[k].val.options[n].t = "list"
                  ELSE results[k].val.options[n].t \in {"bool", "str"}

----------------------------------------------------------------------------
(* C7: routing.                                                             *)

\* the path an outcome shows; an AssertionError shows none ("?")
PathShown(o) ==
    IF o.ok
    THEN CASE o.val.type = "emptyline" -> "empty"
           [] o.val.type \in {"comment", "metadata"} -> "comment"
           [] o.val.type = "include" -> "instruction"
           [] o.val.type = "header" -> "header"
           [] o.val.type = "filter" -> "filter"
    ELSE CASE o.val.exc = "AssertionError" -> "?"
           [] o.val.exc = "AttributeError" -> "filter"
           [] o.val.exc = "ParseError" /\ o.val.error = UNRECOGNIZED_INSTRUCTION
                -> "instruction"
           [] o.val.exc = "ParseError" /\ o.val.error = MALFORMED_HEADER -> "header"
           [] OTHER -> "filter"

\* the five rules, each with the earlier ones excluded
RuleEmpty(c) == c = <<>>
RuleComment(c) == c # <<>> /\ c[1] = "!"
RuleInstruction(c) == c # <<>> /\ c[1] = "%" /\ c[Len(c)] = "%"
RuleHeader(c) == c # <<>> /\ c[1] = "[" /\ c[Len(c)] = "]"
RuleFilter(c) == ~(RuleEmpty(c) \/ RuleComment(c) \/ RuleInstruction(c) \/ RuleHeader(c))

PathsFor(c) ==
    {p \in {"empty", "comment", "instruction", "header", "filter"} :
        \/ p = "empty" /\ RuleEmpty(c)
        \/ p = "comment" /\ RuleComment(c)
        \/ p = "instruction" /\ RuleInstruction(c)
        \/ p = "header" /\ RuleHeader(c)
        \/ p = "filter" /\ RuleFilter(c)}

\* C7: every line is routed, on its trimmed content, to exactly one of the
\* five paths: empty, '!' comment, '%...%' instruction, '[...]' header,
\* otherwise filter; the outcome of the line is an outcome of that path.
C7_RoutedToOnePath ==
    \A k \in Parsed :
        LET c == Strip(lines[k])
        IN /\ Cardinality(PathsFor(c)) = 1
           /\ PathShown(results[k]) \in PathsFor(c) \cup {"?"}
           /\ PathShown(results[k]) = "?" =>
                 PathsFor(c) \subseteq {"comment", "instruction", "header"}

\* a line that starts with '!' and ends with '%', surrounded by whitespace,
\* parsed as a comment
C7_Witness ==
    \E k \in Parsed :
        /\ IsRecord(results[k], {"comment"})
        /\ lines[k] # Strip(lines[k])
        /\ EndsWith(Strip(lines[k]), <<"%">>)

----------------------------------------------------------------------------
(* C8: headers.                                                             *)

\* the header grammar on the whole inner text: Adblock, or Adblock followed
\* by Plus and a version of digits and dots (whitespace allowed between)
HeaderGrammar(inner) ==
    /\ FoldedAt(inner, 1, ADBLOCK)
    /\ \/ Len(inner) = Len(ADBLOCK)
       \/ \E p, v \in (Len(ADBLOCK) + 1)..Len(inner) :
             /\ \A j \in (Len(ADBLOCK) + 1)..(p - 1) : inner[j] \in Space
             /\ FoldedAt(inner, p, PLUS)
             /\ p + Len(PLUS) <= v
             /\ \A j \in (p + Len(PLUS))..(v - 1) : inner[j] \in Space
             /\ \A j \in v..Len(inner) : inner[j] \in Digit \cup {"."}

\* C8: a line whose trimmed content starts with '[' and ends with ']' gives
\* a Header whose version is the whole inner text when that text matches the
\* header grammar, and a 'Malformed header' ParseError otherwise.
C8_HeaderOrMalformed ==
    \A k \in Parsed :
        LET c == Strip(lines[k])
            inner == Slice(c, 2, Len(c) - 1)
        IN (Len(c) >= 2 /\ RuleHeader(c)) =>
              IF HeaderGrammar(inner)
              THEN results[k] = Return(Header(inner))
              ELSE results[k] = Raise(ParseError(MALFORMED_HEADER, c))

----------------------------------------------------------------------------
(* C9: blocking filters.                                                    *)

\* one option token of the options grammar: an optional '~', a name of word
\* characters and dashes, and optionally '=' and a non-empty value without
\* comma or whitespace
ValidOptionToken(tok) ==
    LET t == IF StartsWith(tok, <<"~">>) THEN From(tok, 2) ELSE tok
        n == SpanEnd(t, 1, WordDash)
    IN /\ n > 1
       /\ \/ n = Len(t) + 1
          \/ /\ t[n] = "="
             /\ n < Len(t)
             /\ \A j \in (n + 1)..Len(t) : t[j] \notin Space \cup {","}

\* the positions of a '$' that starts a trailing options segment of rest
OptionSegments(rest) ==
    {d \in 1..Len(rest) :
        /\ rest[d] = "$"
        /\ \A i \in 1..Len(Split(From(rest, d + 1), ",")) :
              ValidOptionToken(Split(From(rest, d + 1), ",")[i])}

\* the options entry that a token gives when it stands alone
Alone(tok) == _parse_filter_options(<<>>, tok).val

\* C9: for every line parsed as a BlockingFilter, expression is the trimmed
\* line, is_exception says whether it starts with '@@', and with rest the
\* expression without that prefix: when rest has a trailing options segment,
\* pattern is what precedes one and options has exactly the names of its
\* tokens, each with the entry of the last token of that name; otherwise
\* pattern is rest and options is empty.
C9_BlockingFilterFields ==
    \A k \in Parsed :
        IsBlocking(results[k]) =>
            LET r == results[k].val
                expr == Strip(lines[k])
                exc == StartsWith(expr, <<"@", "@">>)
                rest == IF exc THEN From(expr, 3) ELSE expr
            IN /\ r.expression = expr
               /\ r.is_exception = exc
               /\ IF OptionSegments(rest) = {}
                  THEN r.pattern = rest /\ r.options = <<>>
                  ELSE \E d \in OptionSegments(rest) :
                          /\ r.pattern = Slice(rest, 1, d - 1)
                          /\ LET toks == Split(From(rest, d + 1), ",")
                                 Last(i) == \A j \in (i + 1)..Len(toks) :
                                               DOMAIN Alone(toks[j]) # DOMAIN Alone(toks[i])
                             IN /\ DOMAIN r.options =
                                      UNION {DOMAIN Alone(toks[i]) : i \in 1..Len(toks)}
                                /\ \A i \in 1..Len(toks) :
                                      Last(i) =>
                                          \A n \in DOMAIN Alone(toks[i]) :
                                              r.options[n] = Alone(toks[i])[n]

\* an exception filter whose option name occurs twice: the last one is kept
C9_Witness ==
    /\ lines = << <<"@", "@", "a", "$", "x", ",", "~", "x">> >>
    /\ results = << Return(BlockingFilter(<<"@", "@", "a", "$", "x", ",", "~", "x">>,
                                          TRUE, SetItem(<<>>, <<"x">>, Bool(FALSE)),
                                          <<"a">>)) >>

----------------------------------------------------------------------------
(* C10: legacy hiding filters.                                              *)

\* a rule without operator
IsBare(rule) == ~Contains(rule, "=")

\* [name<op>"value"] of a rule (name<op>value): the text up to '=' and the
\* quoted text after it
ConstraintOf(rule) ==
    LET inner == Slice(rule, 2, Len(rule) - 1)
        e == Min({i \in 1..Len(inner) : inner[i] = "="})
    IN <<"[">> \o Slice(inner, 1, e) \o <<"\"">> \o From(inner, e + 1)
           \o <<"\"", "]">>

RECURSIVE ConstraintsOf(_)
ConstraintsOf(rules) ==
    IF rules = <<>> THEN <<>>
    ELSE (IF IsBare(Head(rules)) THEN <<>> ELSE ConstraintOf(Head(rules)))
             \o ConstraintsOf(Tail(rules))

BareRules(rules) == SelectSeq(rules, IsBare)

\* a ParseError raised with the given reason
FailsWith(o, reason) == IsParseError(o) /\ reason \in {o.val.error, o.val.text}

\* C10: for a legacy hiding filter with a given tag ('*' counting as empty)
\* and rule list: exactly one bare rule (id) gives the selector
\* tag.id<constraints>,tag#id<constraints>; no bare rule and a non-empty tag
\* or constraints gives tag<constraints>; more than one bare rule fails with
\* the duplicate-id ParseError; everything empty fails with the
\* matches-everything ParseError.  The selector of every HidingFilter is
\* non-empty.
C10_LegacySelector ==
    \A k \in Parsed :
        /\ IsHiding(results[k]) => results[k].val.selector # <<>>
        /\ \A dom \in HidingDomains, exc \in BOOLEAN, tag \in HidingTags,
              rules \in Lists(HidingRules, MaxRules) :
              lines[k] = HidingLine(dom, exc, tag, rules) =>
                  LET t == IF tag = <<"*">> THEN <<>> ELSE tag
                      cons == ConstraintsOf(rules)
                      bare == BareRules(rules)
                      id == Slice(bare[1], 2, Len(bare[1]) - 1)
                  IN CASE Len(bare) = 1 ->
                            /\ IsHiding(results[k])
                            /\ results[k].val.selector =
                                  t \o <<".">> \o id \o cons \o <<",">>
                                    \o t \o <<"#">> \o id \o cons
                       [] Len(bare) = 0 /\ (t # <<>> \/ cons # <<>>) ->
                            /\ IsHiding(results[k])
                            /\ results[k].val.selector = t \o cons
                       [] Len(bare) > 1 -> FailsWith(results[k], DUPLICATE_ID)
                       [] OTHER -> FailsWith(results[k], MATCHES_EVERYTHING)

\* '*' with one operator rule only: the selector is the constraint alone
C10_Witness ==
    /\ lines = << <<"#", "*", "(", "n", "^", "=", "v", ")">> >>
    /\ Len(results) = 1
    /\ IsHiding(results[1])
    /\ results[1].val.selector = <<"[", "n", "^", "=", "\"", "v", "\"", "]">>

====
